---------------------------- MODULE Spec2Model ----------------------------
(***************************************************************************)
(* A model of the style engine of Positron (src/Style.py): the cascade     *)
(* merge join_styles, the value acceptors, the validity check is_valid,    *)
(* the per-declaration expansion process_property and the expansion loop   *)
(* process_input.                                                          *)
(*                                                                         *)
(* Strings are TLA+ strings.  A raw CSS value is the sequence of its       *)
(* whitespace-separated tokens (<<"2px", "solid", "red">> is the text      *)
(* "2px solid red"); a Python dict is the sequence of its (key, value)     *)
(* pairs in insertion order; a Python call that may raise yields a record  *)
(* [t |-> "val", v |-> ...], [t |-> "none"] or [t |-> "exc", e |-> ...].   *)
(***************************************************************************)
EXTENDS Integers, Sequences, FiniteSets, TLC

VARIABLES
    \* ---- the cascade fold (join_styles applied left to right)
    styles,     \* the styles folded so far, in source order
    joined,     \* the running result of the fold
    prev,       \* the running result before the latest join_styles call
    \* ---- one call of process_input, statement by statement
    d,          \* the argument of the current call: a list of (key, value)
    pc,         \* "idle" | "inner" | "returned" | "raised"
    queue,      \* what the running inner(...) loop has still to visit
    done,       \* the dict `done` of process_input
    passes,     \* number of re-expansion passes (inner(todo)) started
    todos,      \* the key sets of `todo`, one per evaluation of the loop head
    errlog,     \* what log_error was called with
    exc,        \* the exception that left process_input, or "none"
    last,       \* the latest process_property call and its outcome
    phase,      \* 1: the call on the input, 2: the call on its own output
    first,      \* the input and output of the phase-1 call
    \* ---- process on one declaration block
    block,      \* the block: a list of (name, (value, important))
    processed,  \* what process returned, or "raised"
    \* ---- a SourceSheet as a list
    sheet,      \* the rule sequence of the sheet
    sheetOp,    \* the latest list operation, the sheet before it, its outcome
    \* ---- SourceSheet.all_rules and its cache
    viewport,   \* (g["W"], g["H"])
    tree,       \* the sheets: sheet number -> its rule sequence
    cache,      \* sheet number -> _last_media_rules of that sheet
    reads,      \* the latest all_rules read: viewport, result, sheets recomputed
    \* ---- parse_file and the current_file marker
    current_file,   \* the module global
    calls,      \* the parse_file calls: their source, position and outcome
    \* ---- one call of an acceptor
    accCall,    \* the acceptor, its arguments and its outcome
    \* ---- get_style and its cache
    tagCache,   \* the tags @cache holds a result for
    tagRead,    \* the latest get_style(tag)[p] and what it gave
    \* ---- parse_style
    inline      \* the inline style string, as its `;`-separated segments

joinVars == <<styles, joined, prev>>
inputVars == <<d, pc, queue, done, passes, todos, errlog, exc, last, phase, first>>
procVars == <<block, processed>>
sheetVars == <<sheet, sheetOp>>
mediaVars == <<viewport, tree, cache, reads>>
fileVars == <<current_file, calls>>
accVars == <<accCall>>
tagVars == <<tagCache, tagRead>>
parseVars == <<inline>>
\* what the cascade fold and a plain process_input call leave alone
restVars == <<procVars, sheetVars, mediaVars, fileVars, accVars, tagVars, parseVars>>
vars == <<joinVars, inputVars, restVars>>

\* None as the value of current_file
NoFile == "None"

ProcIdle == block = <<>> /\ processed = [t |-> "none"]
SheetIdle ==
    sheet = <<>> /\ sheetOp = [op |-> "none", before |-> <<>>, raised |-> "none"]
MediaIdle ==
    /\ viewport = <<>> /\ tree = <<>> /\ cache = <<>>
    /\ reads = [sheet |-> 0, media |-> <<>>, rules |-> <<>>, before |-> <<>>, ran |-> {}]
FileIdle == current_file = NoFile /\ calls = <<>>
AccIdle == accCall = [acc |-> "none"]
TagIdle == tagCache = <<>> /\ tagRead = [tag |-> ""]
ParseIdle == inline = [s |-> <<>>, out |-> [t |-> "none"]]
RestIdle ==
    ProcIdle /\ SheetIdle /\ MediaIdle /\ FileIdle /\ AccIdle /\ TagIdle /\ ParseIdle

---------------------------------------------------------------------------
(* Bounds of the model *)

\* longest sequence of styles folded
MaxStyles == 3
\* longest declaration list given to process_input
MaxDecls == 2
\* most tokens in a directional shorthand value
MaxTokens == 5
\* most re-expansion passes one call of process_input may start
MaxPasses == 3

---------------------------------------------------------------------------
(* Generic helpers *)

None == [t |-> "none"]
Val(v) == [t |-> "val", v |-> v]
Raise(e) == [t |-> "exc", e |-> e]

Range(s) == {s[i] : i \in DOMAIN s}

SeqsUpTo(S, n) == UNION {[1..k -> S] : k \in 0..n}

Min(S) == CHOOSE x \in S : \A y \in S : x <= y

\* the permutations of a finite set, as sequences
Orders(S) == {s \in [1..Cardinality(S) -> S] : Range(s) = S}

\* dict as a function: its keys and the value of a key
Keys(dict) == {dict[i][1] : i \in DOMAIN dict}
Get(dict, k) == dict[CHOOSE i \in DOMAIN dict : dict[i][1] = k][2]
AsMap(dict) == [k \in Keys(dict) |-> Get(dict, k)]

\* the element of a one-element set; The({F(v) : v \in {e}}) is F(e) with e
\* evaluated once
The(S) == CHOOSE x \in S : TRUE

\* dict.update with one item: an existing key keeps its position
Put(dict, kv) ==
    IF kv[1] \in Keys(dict)
    THEN [i \in DOMAIN dict |-> IF dict[i][1] = kv[1] THEN kv ELSE dict[i]]
    ELSE Append(dict, kv)

\* dict.update(items), items in order
RECURSIVE Update(_, _)
Update(dict, items) ==
    IF items = <<>> THEN dict
    ELSE The({Update(Put(dv, Head(iv)), Tail(iv)) : dv \in {dict}, iv \in {items}})

\* dict(items)
Dict(items) == Update(<<>>, items)

---------------------------------------------------------------------------
(* Cascade merge: Style.py join_styles.  A Style maps a property name to   *)
(* the pair <<value, important>>; t[2] is Python's t[1].                   *)

is_imp(t) == t[2]

join_styles_prefers_second(style1, style2) ==
    LET both == DOMAIN style1 \cap DOMAIN style2
    IN  [k \in DOMAIN style1 \cup DOMAIN style2 |->
            IF k \in both
            THEN style2[k]
            ELSE IF k \in DOMAIN style2 THEN style2[k] ELSE style1[k]]

join_styles_ignores_first_flag(style1, style2) ==
    LET both == DOMAIN style1 \cap DOMAIN style2
    IN  [k \in DOMAIN style1 \cup DOMAIN style2 |->
            IF k \in both
            THEN IF style2[k][2] THEN style2[k] ELSE style1[k]
            ELSE IF k \in DOMAIN style2 THEN style2[k] ELSE style1[k]]

join_styles(style1, style2) ==
    LET \* fused = style1 | style2
        fused == [k \in DOMAIN style1 \cup DOMAIN style2 |->
                    IF k \in DOMAIN style2 THEN style2[k] ELSE style1[k]]
        \* style1 ^ style2.keys()
        one == (DOMAIN style1 \ DOMAIN style2) \cup (DOMAIN style2 \ DOMAIN style1)
        \* style1 & style2.keys()
        both == DOMAIN style1 \cap DOMAIN style2
    IN  [k \in one \cup both |->
            IF k \in one
            THEN fused[k]
            ELSE IF style2[k][2] /\ ~style1[k][2] THEN style2[k] ELSE style1[k]]

\* the styles the fold draws from
JoinProps == {"color", "width"}
JoinValues == {"a", "b"}
JoinStyles ==
    UNION {[S -> JoinValues \X BOOLEAN] : S \in SUBSET JoinProps}

NoStyle == <<>>

JoinIdle == styles = <<>> /\ joined = NoStyle /\ prev = NoStyle

\* the fold takes its first style as the running result
JoinFirst ==
    /\ styles = <<>>
    /\ \E s \in JoinStyles :
        /\ styles' = <<s>>
        /\ joined' = s
        /\ prev' = NoStyle
    /\ UNCHANGED inputVars
    /\ UNCHANGED restVars

\* joined = join_styles(joined, s) for the next style s in source order
JoinStep ==
    /\ Len(styles) \in 1..(MaxStyles - 1)
    /\ \E s \in JoinStyles :
        /\ styles' = Append(styles, s)
        /\ prev' = joined
        /\ joined' = join_styles(joined, s)
    /\ UNCHANGED inputVars
    /\ UNCHANGED restVars

---------------------------------------------------------------------------
(* Tables of config.py and util.py, which the style module imports.        *)

\* the viewport and font globals of config.g
g == [W |-> 800, H |-> 600, default_font_size |-> 16, root_font_size |-> 16]

\* absolute length units and their pixel factors
abs_length_units == [px |-> 1, pc |-> 16, in |-> 96]
abs_border_width == {"thin", "medium", "thick"}
abs_font_weight == {"normal", "bold"}
\* keyword -> exponent of 1.2
abs_font_size == [small |-> -1, medium |-> 0, large |-> 1]
rel_font_size == [smaller |-> -1, larger |-> 1]

directions == <<"top", "right", "bottom", "left">>

inset_keys == <<"top", "right", "bottom", "left">>
pad_keys == <<"padding-top", "padding-right", "padding-bottom", "padding-left">>
marg_keys == <<"margin-top", "margin-right", "margin-bottom", "margin-left">>
bw_keys == <<"border-top-width", "border-right-width", "border-bottom-width",
             "border-left-width">>
bc_keys == <<"border-top-color", "border-right-color", "border-bottom-color",
             "border-left-color">>
bs_keys == <<"border-top-style", "border-right-style", "border-bottom-style",
             "border-left-style">>

\* util.noop, the default acceptor: accepts nothing
noop(value, p_style) == None

\* the color names Color(...) knows (pygame's table, plus the two added ones)
THECOLORS == {"red", "blue", "black", "canvastext", "transparent"}

\* the numeric tokens of the model: token -> (number, unit), what the
\* pattern of split_units captures; any other token does not match it
NumTok ==
    [t \in {"0", "0foo", "1px", "2px", "3px", "4px", "2em", "5foo", "50%"} |->
        CASE t = "0"    -> <<0, "">>
          [] t = "0foo" -> <<0, "foo">>
          [] t = "1px"  -> <<1, "px">>
          [] t = "2px"  -> <<2, "px">>
          [] t = "3px"  -> <<3, "px">>
          [] t = "4px"  -> <<4, "px">>
          [] t = "2em"  -> <<2, "em">>
          [] t = "5foo" -> <<5, "foo">>
          [] t = "50%"  -> <<50, "%">>]

\* the numbers float(...) parses, for font-weight
FloatTok == [t \in {"-5", "0", "1", "700", "1000", "1001"} |->
                CASE t = "-5" -> -5 [] t = "0" -> 0 [] t = "1" -> 1
                  [] t = "700" -> 700 [] t = "1000" -> 1000 [] t = "1001" -> 1001]

\* util.check_regex("dimension", value): a number followed by a unit name
check_regex_dimension(value) ==
    /\ value \in DOMAIN NumTok
    /\ NumTok[value][2] \notin {"", "%"}

\* own_types.FontStyle(*tokens): a known font style, or AssertionError
FontStyle(tokens) ==
    IF Len(tokens) >= 1 /\ tokens[1] \in {"normal", "italic", "oblique"}
    THEN Val(<<"FontStyle", tokens[1]>>)
    ELSE Raise("AssertionError")

\* p_style[key]
Lookup(p_style, key) ==
    IF key \in DOMAIN p_style THEN Val(p_style[key]) ELSE Raise("KeyError")

\* the empty parent style {} and a complete one
EmptyStyle == <<>>
ParentStyle ==
    [k \in {"color", "font-size", "font-weight"} |->
        CASE k = "color" -> <<"Color", "black">>
          [] k = "font-size" -> 16
          [] k = "font-weight" -> 400]

---------------------------------------------------------------------------
(* Acceptors: Style.py lines 33-162 *)

_length(dimension, p_style) ==
    LET num == dimension[1]
        s == dimension[2]
        w == g.W
        h == g.H
    IN  IF num = 0 THEN Val(0)
        ELSE IF s \in DOMAIN abs_length_units THEN Val(abs_length_units[s] * num)
        ELSE IF s = "em" THEN
            LET fs == Lookup(p_style, "font-size")
            IN  IF fs.t = "val" THEN Val(fs.v * num) ELSE fs
        ELSE IF s = "rem" THEN Val(g.root_font_size * num)
        ELSE IF s = "vw" THEN Val((num * w) \div 100)
        ELSE IF s = "vh" THEN Val((num * h) \div 100)
        ELSE IF s = "vmin" THEN Val((num * (IF w < h THEN w ELSE h)) \div 100)
        ELSE IF s = "vmax" THEN Val((num * (IF w > h THEN w ELSE h)) \div 100)
        ELSE Raise("ValueError")

\* match.groups() of a failed match raises AttributeError
split_units(attr) ==
    IF attr \in DOMAIN NumTok THEN Val(NumTok[attr]) ELSE Raise("AttributeError")

\* with suppress(AttributeError): the block's exception becomes None
length(value, p_style) ==
    LET su == split_units(value)
    IN  IF su.t = "exc" THEN None ELSE _length(su.v, p_style)

\* mult is None or Val(base)
length_percentage(value, p_style, mult) ==
    LET su == split_units(value)
    IN  IF su.t = "exc" THEN None
        ELSE IF su.v[2] = "%"
             THEN IF mult = None
                  THEN Val(<<"Percentage", su.v[1]>>)
                  ELSE Val(<<"Percentage", mult.v * su.v[1]>>)
             ELSE _length(su.v, p_style)

color(value, p_style) ==
    IF value = "currentcolor" THEN Lookup(p_style, "color")
    ELSE IF value \in THECOLORS THEN Val(<<"Color", value>>)
    ELSE None

font_size(value, p_style) ==
    IF value \in DOMAIN abs_font_size
    THEN Val([base |-> g.default_font_size, exp |-> abs_font_size[value]])
    ELSE LET p_size == Lookup(p_style, "font-size")
         IN  IF p_size.t = "exc" THEN p_size
             ELSE IF value \in DOMAIN rel_font_size
                  THEN Val([base |-> p_size.v, exp |-> rel_font_size[value]])
                  ELSE length_percentage(value, p_style, p_size)

\* the numeric upper bound and the last bolder threshold moved by one
font_weight_below_1000(value, p_style) ==
    LET p == Lookup(p_style, "font-weight")
    IN  IF p.t = "exc" THEN p
        ELSE LET p_size == p.v
             IN  IF value = "lighter" THEN
                     IF p_size < 100 THEN Val(p_size)
                     ELSE IF p_size < 550 THEN Val(100)
                     ELSE IF p_size < 700 THEN Val(400)
                     ELSE IF p_size <= 1000 THEN Val(700)
                     ELSE Raise("ValueError")
                 ELSE IF value = "bolder" THEN
                     IF p_size < 350 THEN Val(400)
                     ELSE IF p_size < 550 THEN Val(700)
                     ELSE IF p_size <= 900 THEN Val(900)
                     ELSE Val(p_size)
                 ELSE IF value \in DOMAIN FloatTok
                         /\ 0 < FloatTok[value] /\ FloatTok[value] < 1000
                      THEN Val(FloatTok[value])
                      ELSE None

font_weight(value, p_style) ==
    LET p == Lookup(p_style, "font-weight")
    IN  IF p.t = "exc" THEN p
        ELSE LET p_size == p.v
             IN  IF value = "lighter" THEN
                     IF p_size < 100 THEN Val(p_size)
                     ELSE IF p_size < 550 THEN Val(100)
                     ELSE IF p_size < 700 THEN Val(400)
                     ELSE IF p_size <= 1000 THEN Val(700)
                     ELSE Raise("ValueError")
                 ELSE IF value = "bolder" THEN
                     IF p_size < 350 THEN Val(400)
                     ELSE IF p_size < 550 THEN Val(700)
                     ELSE IF p_size < 900 THEN Val(900)
                     ELSE Val(p_size)
                 ELSE IF value \in DOMAIN FloatTok
                         /\ 0 < FloatTok[value] /\ FloatTok[value] <= 1000
                      THEN Val(FloatTok[value])
                      ELSE None

font_style(value, p_style) ==
    LET r == FontStyle(<<value>>)
    IN  IF r.t = "exc" THEN None ELSE r

no_change(value, p_style) == Val(value)

---------------------------------------------------------------------------
(* The property registry: Style.py lines 170-267 *)

\* StyleAttr.__init__: inherits defaults to "the acceptor is not
\* length_percentage"; inherits is None or Val(a BOOLEAN)
StyleAttr(initial, kws, acc, inherits) ==
    [initial |-> initial, kws |-> kws, accept |-> acc,
     inherits |-> IF inherits.t = "none" THEN acc # "length_percentage" ELSE inherits.v]

AALP == StyleAttr("auto", {"auto"}, "length_percentage", None)
BorderWidthAttr == StyleAttr("medium", abs_border_width, "length_percentage", None)
BorderStyleAttr ==
    StyleAttr("none",
              {"none", "hidden", "dotted", "dashed", "solid", "double", "groove",
               "ridge", "inset", "outset"},
              "noop", Val(FALSE))

\* the keys of style_attrs in the order of the dict literal
style_attr_keys ==
    <<"color", "font-weight", "font-family", "font-size", "font-style",
      "line-height", "word-spacing", "display", "background-color", "width",
      "height", "position", "box-sizing">>
    \o inset_keys \o pad_keys \o marg_keys \o bw_keys \o bc_keys \o bs_keys

style_attrs ==
    [k \in Range(style_attr_keys) |->
        CASE k = "color" -> StyleAttr("canvastext", {}, "color", None)
          [] k = "font-weight" ->
                StyleAttr("normal", abs_font_weight, "font_weight", None)
          [] k = "font-family" -> StyleAttr("Arial", {}, "no_change", None)
          [] k = "font-size" -> StyleAttr("medium", {}, "font_size", None)
          [] k = "font-style" -> StyleAttr("normal", {}, "font_style", None)
          [] k \in {"line-height", "word-spacing"} ->
                StyleAttr("normal", {"normal"}, "length_percentage", Val(TRUE))
          [] k = "display" ->
                StyleAttr("inline", {"inline", "block", "none"}, "noop", None)
          [] k = "background-color" ->
                StyleAttr("transparent", {}, "color", None)
          [] k \in {"width", "height"} -> AALP
          [] k = "position" ->
                StyleAttr("static",
                          {"static", "relative", "absolute", "sticky", "fixed"},
                          "noop", None)
          [] k = "box-sizing" ->
                StyleAttr("content-box", {"content-box", "border-box"}, "noop",
                          None)
          [] k \in Range(inset_keys) \cup Range(pad_keys) \cup Range(marg_keys) -> AALP
          [] k \in Range(bw_keys) -> BorderWidthAttr
          [] k \in Range(bc_keys) -> StyleAttr("currentcolor", {}, "color", None)
          [] k \in Range(bs_keys) -> BorderStyleAttr]

\* attr.accept(value, p_style)
accept(attr, value, p_style) ==
    CASE attr.accept = "color" -> color(value, p_style)
      [] attr.accept = "font_weight" -> font_weight(value, p_style)
      [] attr.accept = "font_size" -> font_size(value, p_style)
      [] attr.accept = "font_style" -> font_style(value, p_style)
      [] attr.accept = "no_change" -> no_change(value, p_style)
      [] attr.accept = "length_percentage" -> length_percentage(value, p_style, None)
      [] attr.accept = "noop" -> noop(value, p_style)

---------------------------------------------------------------------------
(* Shorthand tables and validity: Style.py lines 552-634 *)

colors == {"currentcolor"} \cup THECOLORS

guessing_keys == {"border-width", "border-color", "border-style"}

\* guessing[name](value), as a truth value
guessing(name, value) ==
    CASE name = "border-width" -> value \in BorderStyleAttr.kws
      [] name = "border-color" ->
            value \in colors
            \/ color(value, [k \in {"color"} |-> "black"]).t = "val"
      [] name = "border-style" ->
            value \in BorderWidthAttr.kws \/ check_regex_dimension(value)

global_values == {"inherit", "initial", "unset", "revert"}

dir_fallbacks_left_from_top ==
    [k \in {"right", "bottom", "left"} |-> "top"]

dir_fallbacks ==
    [k \in {"right", "bottom", "left"} |->
        CASE k = "right" -> "top" [] k = "bottom" -> "top" [] k = "left" -> "right"]

dir_shorthand_keys ==
    {"margin", "padding", "border-width", "border-color", "border-style", "inset"}

\* dir_shorthands[key], the format string
dir_shorthands ==
    [k \in dir_shorthand_keys |->
        CASE k = "margin" -> "margin-{}"
          [] k = "padding" -> "padding-{}"
          [] k = "border-width" -> "border-{}-width"
          [] k = "border-color" -> "border-{}-color"
          [] k = "border-style" -> "border-{}-style"
          [] k = "inset" -> "{}"]

\* fstring.format(k) for a direction k
format(fstring, k) ==
    LET i == CHOOSE j \in DOMAIN directions : directions[j] = k
    IN  CASE fstring = "margin-{}" ->
                <<"margin-top", "margin-right", "margin-bottom", "margin-left">>[i]
          [] fstring = "padding-{}" ->
                <<"padding-top", "padding-right", "padding-bottom", "padding-left">>[i]
          [] fstring = "border-{}-width" ->
                <<"border-top-width", "border-right-width", "border-bottom-width",
                  "border-left-width">>[i]
          [] fstring = "border-{}-color" ->
                <<"border-top-color", "border-right-color", "border-bottom-color",
                  "border-left-color">>[i]
          [] fstring = "border-{}-style" ->
                <<"border-top-style", "border-right-style", "border-bottom-style",
                  "border-left-style">>[i]
          [] fstring = "border-{}" ->
                <<"border-top", "border-right", "border-bottom", "border-left">>[i]
          [] fstring = "{}" -> k

smart_shorthand_keys ==
    {"border"} \cup {format("border-{}", directions[i]) : i \in DOMAIN directions}

smart_shorthands ==
    [k \in smart_shorthand_keys |->
        IF k = "border"
        THEN {"border-width", "border-style", "border-color"}
        ELSE LET side == CHOOSE x \in Range(directions) : format("border-{}", x) = k
             IN  {format("border-{}-width", side), format("border-{}-style", side),
                  format("border-{}-color", side)}]

\* with suppress(KeyError): if <r> is None: return False
\* return True
\* where r is the outcome of attr.accept(value, {})
is_valid_accepted(r) ==
    IF r.t = "none" THEN Val(FALSE)
    ELSE IF r.t = "exc" /\ r.e # "KeyError" THEN r
    ELSE Val(TRUE)

\* the branch of is_valid for a registered property with descriptor attr
is_valid_attr(name, value, attr) ==
    IF name \in attr.kws THEN Val(TRUE)
    ELSE is_valid_accepted(accept(attr, value, EmptyStyle))

\* is_valid(name, value): Val(TRUE), Val(FALSE) or the exception that escapes
is_valid(name, value) ==
    IF name \in global_values THEN Val(TRUE)
    ELSE IF name \in guessing_keys THEN Val(guessing(name, value))
    ELSE IF name \in DOMAIN style_attrs
         THEN is_valid_attr(name, value, style_attrs[name])
         ELSE Val(FALSE)

---------------------------------------------------------------------------
(* Expansion of one declaration: Style.py lines 637-695 *)

\* split(s): the whitespace-separated tokens of a raw value
split(s) == s

\* the raw text of a single token
Raw(token) == <<token>>

Ok(res) == [t |-> "ok", res |-> res]
\* a failed assert; args is <<>> when the assert states no message
AssertionError(args) == [t |-> "assert", args |-> args]

\* _res[k] after the fallback loop of the directional branch
RECURSIVE dir_value(_, _)
dir_value(arr, k) ==
    LET i == CHOOSE j \in DOMAIN directions : directions[j] = k
    IN  IF i <= Len(arr) THEN arr[i] ELSE dir_value(arr, dir_fallbacks[k])

\* the (k, v) pairs in the order the comprehension
\* {k: v for v in arr for k in shorthand if is_valid(k, v)} visits them;
\* order is the iteration order of the set shorthand
smart_pairs(arr, order) ==
    [i \in 1..(Len(arr) * Len(order)) |->
        <<order[((i - 1) % Len(order)) + 1], arr[((i - 1) \div Len(order)) + 1]>>]

\* the dict the comprehension builds, given is_valid's outcome for each pair:
\* the first exception escapes, else the pairs found valid are kept in order
smart_collect(pairs, checks) ==
    LET raising == {i \in DOMAIN pairs : checks[i].t = "exc"}
        kept == {i \in DOMAIN pairs : checks[i].v}
        nth(j) == CHOOSE i \in kept : Cardinality({x \in kept : x < i}) = j - 1
    IN  IF raising # {} THEN checks[Min(raising)]
        ELSE Val(Dict([j \in 1..Cardinality(kept) |->
                        <<pairs[nth(j)][1], Raw(pairs[nth(j)][2])>>]))

smart_checks(pairs) == [i \in DOMAIN pairs |-> is_valid(pairs[i][1], pairs[i][2])]

smart_result(pairs) ==
    The({smart_collect(pv, checks) : pv \in {pairs}, checks \in {smart_checks(pairs)}})

\* left = shorthand ^ result.keys(); assert not left; return result
smart_finish(shorthand, result) ==
    IF result.t = "exc" THEN result
    ELSE IF shorthand \ Keys(result.v) # {}
         THEN AssertionError(<<"Invalid key(s)">>)
         ELSE Ok(result.v)

\* assert is_valid(key, value), "Invalid Value"; return {key: value}
plain_finish(key, token, valid) ==
    IF valid.t = "exc" THEN valid
    ELSE IF ~valid.v THEN AssertionError(<<"Invalid Value">>)
    ELSE Ok(<<<<key, Raw(token)>>>>)

\* process_property(key, value): Ok(dict), a failed assert or an exception;
\* order is the iteration order of smart_shorthands[key] (unused otherwise)
process_property(key, value, order) ==
    LET arr == split(value)
    IN  IF key = "all" THEN
            IF Len(arr) # 1 THEN AssertionError(<<>>)
            ELSE IF arr[1] \notin global_values THEN AssertionError(<<>>)
            ELSE Ok([i \in DOMAIN style_attr_keys |-> <<style_attr_keys[i], value>>])
        ELSE IF key \in DOMAIN dir_shorthands THEN
            IF Len(arr) > Len(directions)
            THEN AssertionError(<<"Too many values">>)
            ELSE LET fstring == dir_shorthands[key]
                 IN  Ok([i \in DOMAIN directions |->
                            <<format(fstring, directions[i]),
                              Raw(dir_value(arr, directions[i]))>>])
        ELSE IF key \in DOMAIN smart_shorthands THEN
            LET shorthand == smart_shorthands[key]
            IN  IF Len(arr) > Cardinality(shorthand)
                THEN AssertionError(<<"Too many values">>)
                ELSE The({smart_finish(shorthand, result) :
                            result \in {smart_result(smart_pairs(arr, order))}})
        ELSE
            IF Len(arr) # 1 THEN AssertionError(<<>>)
            ELSE IF key \notin DOMAIN style_attrs
                 THEN AssertionError(<<"Unknown Property">>)
                 ELSE plain_finish(key, arr[1], is_valid(key, arr[1]))

\* the iteration orders a set.__iter__ of smart_shorthands[key] can have
SetOrders(key) ==
    IF key \in DOMAIN smart_shorthands THEN Orders(smart_shorthands[key]) ELSE {<<>>}

---------------------------------------------------------------------------
(* The expansion loop: Style.py lines 597-616 *)

\* the partition at the head of the while loop: <<_done, todo>>
partition_keeps_all(items) == <<items, <<>>>>

partition_inverted(items) ==
    <<SelectSeq(items, LAMBDA item : item[1] \notin DOMAIN style_attrs),
      SelectSeq(items, LAMBDA item : item[1] \in DOMAIN style_attrs)>>

\* group_by_bool(done.items(), lambda item: item[0] in style_attrs): the items
\* the test holds for, then the others, each in the order of done
partition(items) ==
    <<SelectSeq(items, LAMBDA item : item[1] \in DOMAIN style_attrs),
      SelectSeq(items, LAMBDA item : item[1] \notin DOMAIN style_attrs)>>

NoCall == [key |-> "", value |-> <<>>, out |-> None]
NoFirst == [input |-> <<>>, output |-> <<>>, passes |-> 0, pc |-> "idle"]

InputIdle ==
    /\ d = <<>> /\ pc = "idle" /\ queue = <<>> /\ done = <<>> /\ passes = 0
    /\ todos = <<>> /\ errlog = <<>> /\ exc = "none" /\ last = NoCall
    /\ phase = 1 /\ first = NoFirst

\* process_input(input) has been called: done = {} and inner(d) is to run
Called(input) ==
    /\ d = input /\ pc = "inner" /\ queue = input /\ done = <<>> /\ passes = 0
    /\ todos = <<>> /\ errlog = <<>> /\ exc = "none" /\ last = NoCall

\* one iteration of the for loop of inner(...): the try block and its handler
InnerStep ==
    /\ pc = "inner"
    /\ queue # <<>>
    /\ \E order \in SetOrders(Head(queue)[1]) :
      \E out \in {process_property(Head(queue)[1], Head(queue)[2], order)} :
        LET key == Head(queue)[1]
            value == Head(queue)[2]
            \* the handler formats e.args[0]: IndexError when args is empty
            escapes == IF out.t = "exc" THEN out.e
                       ELSE IF out.t = "assert" /\ out.args = <<>> THEN "IndexError"
                       ELSE "none"
        IN  /\ last' = [key |-> key, value |-> value, out |-> out]
            /\ done' = IF out.t = "ok" THEN Update(done, out.res) ELSE done
            /\ errlog' = IF out.t = "assert" /\ out.args # <<>>
                         THEN Append(errlog, <<out.args[1], key, value>>)
                         ELSE errlog
            /\ exc' = escapes
            /\ pc' = IF escapes = "none" THEN "inner" ELSE "raised"
            /\ queue' = Tail(queue)
    /\ UNCHANGED <<d, passes, todos, phase, first>>
    /\ UNCHANGED joinVars
    /\ UNCHANGED restVars

\* inner(...) has returned: the body of `while True` up to the next inner(todo)
LoopHead ==
    /\ pc = "inner"
    /\ queue = <<>>
    /\ passes < MaxPasses
    /\ \E parts \in {partition(done)} :
        \E _done \in {parts[1]}, todo \in {parts[2]} :
           /\ done' = Dict(_done)
           /\ todos' = Append(todos, Keys(todo))
           /\ pc' = IF todo = <<>> THEN "returned" ELSE "inner"
           /\ queue' = todo
           /\ passes' = IF todo = <<>> THEN passes ELSE passes + 1
    /\ UNCHANGED <<d, errlog, exc, last, phase, first>>
    /\ UNCHANGED joinVars
    /\ UNCHANGED restVars

\* the caller gives the returned mapping (its items) to process_input again
Reapply ==
    /\ pc = "returned"
    /\ phase = 1
    /\ phase' = 2
    /\ first' = [input |-> d, output |-> done, passes |-> passes, pc |-> pc]
    /\ d' = done /\ pc' = "inner" /\ queue' = done /\ done' = <<>> /\ passes' = 0
    /\ todos' = <<>> /\ errlog' = <<>> /\ exc' = "none" /\ last' = NoCall
    /\ UNCHANGED joinVars
    /\ UNCHANGED restVars

---------------------------------------------------------------------------
(* The declarations the model feeds process_input *)

DirTokens == <<"1px", "2px", "3px", "4px">>
DirValue(n) == [i \in 1..n |-> DirTokens[((i - 1) % Len(DirTokens)) + 1]]

DirDecls ==
    {<<k, DirValue(n)>> : k \in dir_shorthand_keys, n \in 1..MaxTokens}

BorderDecls ==
    {<<"border", v>> : v \in Orders({"2px", "solid", "red"})}
    \cup {<<"border", <<"2px">>>>, <<"border", <<"2px", "solid", "red", "blue">>>>,
          <<"border", <<"thin", "dotted", "blue">>>>}
    \cup {<<format("border-{}", directions[i]), <<"2px", "solid", "red">>>> :
            i \in DOMAIN directions}
    \cup {<<"border-top", <<"5foo", "solid", "red">>>>}

PlainDecls ==
    {<<"display", <<"block">>>>, <<"display", <<"foo">>>>,
     <<"display", <<"block", "none">>>>, <<"position", <<"absolute">>>>,
     <<"width", <<"auto">>>>, <<"width", <<"2px">>>>, <<"width", <<"5foo">>>>,
     <<"width", <<"0foo">>>>, <<"width", <<"2em">>>>, <<"width", <<"50%">>>>,
     <<"width", <<"foo">>>>, <<"line-height", <<"normal">>>>,
     <<"font-weight", <<"bold">>>>, <<"font-weight", <<"700">>>>,
     <<"font-weight", <<"foo">>>>, <<"font-size", <<"medium">>>>,
     <<"font-size", <<"foo">>>>, <<"font-family", <<"foo">>>>,
     <<"font-style", <<"italic">>>>, <<"font-style", <<"foo">>>>,
     <<"color", <<"red">>>>, <<"color", <<"foo">>>>,
     <<"background-color", <<"currentcolor">>>>,
     <<"border-top-width", <<"thin">>>>, <<"border-top-style", <<"solid">>>>,
     <<"border-top-color", <<"blue">>>>, <<"margin-top", <<"3px">>>>,
     <<"bogus", <<"red">>>>, <<"bogus", <<"red", "blue">>>>,
     <<"all", <<"inherit">>>>, <<"all", <<"foo">>>>,
     <<"all", <<"inherit", "initial">>>>, <<"margin", <<"foo", "bar">>>>}

AllDecls == DirDecls \cup BorderDecls \cup PlainDecls

\* the declarations that lists of several are built from
ListDecls ==
    {<<"display", <<"block">>>>, <<"width", <<"2px">>>>, <<"width", <<"5foo">>>>,
     <<"color", <<"red">>>>, <<"color", <<"foo">>>>, <<"bogus", <<"red">>>>,
     <<"margin", <<"1px", "2px">>>>, <<"margin", <<"foo", "bar">>>>,
     <<"margin", DirValue(MaxTokens)>>, <<"margin-top", <<"3px">>>>,
     <<"border", <<"2px", "solid", "red">>>>, <<"border-top-color", <<"blue">>>>,
     <<"border-top", <<"2px", "solid", "red">>>>, <<"font-weight", <<"foo">>>>,
     <<"display", <<"block", "none">>>>, <<"all", <<"inherit">>>>}

Inputs == {<<x>> : x \in AllDecls} \cup SeqsUpTo(ListDecls, MaxDecls)

---------------------------------------------------------------------------
(* Specifications *)

\* process_input on every input of Inputs, then on its own output
Init ==
    /\ JoinIdle /\ RestIdle
    /\ phase = 1 /\ first = NoFirst
    /\ \E input \in Inputs : Called(input)

Next == InnerStep \/ LoopHead \/ Reapply

Spec == Init /\ [][Next]_vars

\* the interpreter runs a started call to its end
FairSpec == Spec /\ WF_vars(Next)

\* the cascade fold over every sequence of up to MaxStyles styles
JoinInit == JoinIdle /\ InputIdle /\ RestIdle

JoinNext == JoinFirst \/ JoinStep

SpecJoin == JoinInit /\ [][JoinNext]_vars

---------------------------------------------------------------------------
(* Claims about the cascade merge, checked under SpecJoin *)

\* the two arguments of the latest join_styles call
Style1 == prev
Style2 == styles[Len(styles)]

\* C1: join_styles(style1, style2) has the union of both key sets as its key
\* set; a key of both maps carries style2's declaration exactly when
\* style2's is important and style1's is not, and style1's otherwise; a key
\* of only one map carries that map's declaration.
C1_JoinStylesContract ==
    Len(styles) >= 2 =>
        /\ DOMAIN joined = DOMAIN Style1 \cup DOMAIN Style2
        /\ \A k \in DOMAIN Style1 \cap DOMAIN Style2 :
            /\ (is_imp(Style2[k]) /\ ~is_imp(Style1[k])) => joined[k] = Style2[k]
            /\ ~(is_imp(Style2[k]) /\ ~is_imp(Style1[k])) => joined[k] = Style1[k]
        /\ \A k \in DOMAIN Style1 \ DOMAIN Style2 : joined[k] = Style1[k]
        /\ \A k \in DOMAIN Style2 \ DOMAIN Style1 : joined[k] = Style2[k]

\* a join of two styles that share a key where only the second is important,
\* and that each have a key of their own
C1_Witness ==
    /\ Len(styles) >= 2
    /\ \E k \in DOMAIN Style1 \cap DOMAIN Style2 :
        /\ is_imp(Style2[k]) /\ ~is_imp(Style1[k])
        /\ Style2[k][1] # Style1[k][1]
        /\ joined[k] = Style2[k]
    /\ DOMAIN Style2 \ DOMAIN Style1 # {}

\* the styles of the sequence that declare p, and those that declare it important
Declaring(p) == {i \in DOMAIN styles : p \in DOMAIN styles[i]}
DeclaringImportant(p) == {i \in Declaring(p) : is_imp(styles[i][p])}

\* C2: the left-to-right fold of join_styles over a sequence of styles gives,
\* for every property, the declaration of the earliest style declaring it
\* important if there is one, and else that of the earliest style declaring it.
C2_FoldPrecedence ==
    Len(styles) >= 1 =>
        /\ DOMAIN joined = {p \in JoinProps : Declaring(p) # {}}
        /\ \A p \in DOMAIN joined :
            joined[p] = IF DeclaringImportant(p) # {}
                        THEN styles[Min(DeclaringImportant(p))][p]
                        ELSE styles[Min(Declaring(p))][p]

\* a fold where a later important declaration has overridden two earlier
\* non-important ones, and one where a later plain one lost to an earlier one
C2_Witness ==
    /\ Len(styles) = 3
    /\ "color" \in DOMAIN styles[1] /\ ~is_imp(styles[1]["color"])
    /\ "color" \in DOMAIN styles[2] /\ ~is_imp(styles[2]["color"])
    /\ "color" \in DOMAIN styles[3] /\ is_imp(styles[3]["color"])
    /\ styles[3]["color"][1] # styles[1]["color"][1]
    /\ joined["color"] = styles[3]["color"]
    /\ "width" \in DOMAIN styles[1] /\ "width" \in DOMAIN styles[2]
    /\ ~is_imp(styles[1]["width"]) /\ ~is_imp(styles[2]["width"])
    /\ styles[2]["width"][1] # styles[1]["width"][1]
    /\ "width" \notin DOMAIN styles[3]
    /\ joined["width"] = styles[1]["width"]

---------------------------------------------------------------------------
(* Claims about process_property, checked under Spec on the latest call *)

Finished == pc \in {"returned", "raised"}

\* the token classes the smart shorthand is meant to tell apart
WidthToken(t) == t \in abs_border_width \/ check_regex_dimension(t)
StyleToken(t) == t \in BorderStyleAttr.kws
ColorToken(t) == t \in colors

\* the single mapping with the given keys and values
Map3(k1, v1, k2, v2, k3, v3) ==
    [k \in {k1, k2, k3} |-> IF k = k1 THEN v1 ELSE IF k = k2 THEN v2 ELSE v3]

\* C3: `border` with one width token, one border-style keyword and one color
\* token, in any order, expands to exactly border-width: the width token,
\* border-style: the style keyword, border-color: the color token.
C3_BorderAnyOrder ==
    \A w \in Range(last.value), st \in Range(last.value), c \in Range(last.value) :
        ( /\ last.key = "border"
          /\ Len(last.value) = 3
          /\ Range(last.value) = {w, st, c}
          /\ WidthToken(w) /\ StyleToken(st) /\ ColorToken(c) )
        => /\ last.out.t = "ok"
           /\ AsMap(last.out.res) =
                Map3("border-width", Raw(w), "border-style", Raw(st),
                     "border-color", Raw(c))

\* what C4 expects for direction number i of a value of 1 to 4 tokens
C4_Expected(value, i) ==
    CASE i = 1 -> value[1]
      [] i = 2 -> IF Len(value) >= 2 THEN value[2] ELSE value[1]
      [] i = 3 -> IF Len(value) >= 3 THEN value[3] ELSE value[1]
      [] i = 4 -> IF Len(value) >= 4 THEN value[4]
                  ELSE IF Len(value) >= 2 THEN value[2] ELSE value[1]

\* the longhand names of a directional shorthand: top, right, bottom, left
C4_Longhands(key) ==
    CASE key = "margin" ->
            <<"margin-top", "margin-right", "margin-bottom", "margin-left">>
      [] key = "padding" ->
            <<"padding-top", "padding-right", "padding-bottom", "padding-left">>
      [] key = "inset" -> <<"top", "right", "bottom", "left">>
      [] key = "border-width" ->
            <<"border-top-width", "border-right-width", "border-bottom-width",
              "border-left-width">>
      [] key = "border-color" ->
            <<"border-top-color", "border-right-color", "border-bottom-color",
              "border-left-color">>
      [] key = "border-style" ->
            <<"border-top-style", "border-right-style", "border-bottom-style",
              "border-left-style">>

C4_ExpectedMap(key, value) ==
    [k \in Range(C4_Longhands(key)) |->
        Raw(C4_Expected(value,
                        CHOOSE i \in 1..4 : C4_Longhands(key)[i] = k))]

\* C4: for a directional shorthand with 1 to 4 tokens process_property gives
\* top, right, bottom, left the tokens in that order, a missing right and
\* bottom taking top's and a missing left taking right's; with more than 4
\* tokens the declaration is an error with no output.
C4_Directional ==
    last.key \in dir_shorthand_keys =>
        IF Len(last.value) <= 4
        THEN /\ last.out.t = "ok"
             /\ Len(last.out.res) = 4
             /\ AsMap(last.out.res) = C4_ExpectedMap(last.key, last.value)
        ELSE /\ last.out.t = "assert"
             /\ last.out.args # <<>>
             /\ (\A j \in DOMAIN d : d[j] = <<last.key, last.value>>) =>
                    Keys(done) \cap Range(C4_Longhands(last.key)) = {}

\* process_property("margin", "1px 2px") has given top=1px, right=2px,
\* bottom=1px, left=2px
C4_Witness ==
    /\ last.key = "margin"
    /\ last.value = <<"1px", "2px">>
    /\ last.out.t = "ok"
    /\ AsMap(last.out.res) =
         [k \in {"margin-top", "margin-right", "margin-bottom", "margin-left"} |->
            IF k \in {"margin-top", "margin-bottom"}
            THEN Raw("1px") ELSE Raw("2px")]

\* the acceptor of property key accepts the token against the empty parent
\* style: it returns a value, or needs the parent it was not given
C5_Accepted(key, token) ==
    \/ accept(style_attrs[key], token, EmptyStyle).t = "val"
    \/ accept(style_attrs[key], token, EmptyStyle) = Raise("KeyError")

\* C5: a plain declaration of a canonical property with a single value is
\* kept exactly when the value is a registered keyword of the property or the
\* property's acceptor accepts it against an empty parent style.
C5_PlainKeptIffValid ==
    (last.key \in DOMAIN style_attrs /\ Len(last.value) = 1) =>
        ( last.out = Ok(<< <<last.key, last.value>> >>)
          <=> \/ last.value[1] \in style_attrs[last.key].kws
              \/ C5_Accepted(last.key, last.value[1]) )

---------------------------------------------------------------------------
(* Claims about process_input, checked under Spec *)

\* a declaration process_input is meant to keep: a canonical property with
\* one token that is_valid lets pass
KeptAlone(decl) ==
    /\ decl[1] \in DOMAIN style_attrs
    /\ Len(decl[2]) = 1
    /\ is_valid(decl[1], decl[2][1]) = Val(TRUE)

\* C6: process_input returns normally for every list of declarations: a bad
\* declaration is dropped alone and every valid declaration of the list is
\* still in the output.
C6_BadDeclarationDroppedAlone ==
    /\ pc # "raised"
    /\ (pc = "returned" /\ phase = 1) =>
        \A i \in DOMAIN d : KeptAlone(d[i]) => d[i][1] \in Keys(done)

\* the value is valid for the property: a registered keyword, a value the
\* acceptor accepts, or one of the global keywords every property takes
C7_Valid(key, value) ==
    /\ key \in DOMAIN style_attrs
    /\ Len(value) = 1
    /\ \/ value[1] \in style_attrs[key].kws
       \/ value[1] \in global_values
       \/ accept(style_attrs[key], value[1], ParentStyle).t = "val"

\* C7: every (property, value) pair of the output of process_input is valid
\* for its property.
C7_OutputValid ==
    pc = "returned" => \A i \in DOMAIN done : C7_Valid(done[i][1], done[i][2])

ShorthandNames ==
    {"all"} \cup dir_shorthand_keys \cup smart_shorthand_keys

\* C8: every key of the mapping process_input returns is a canonical property
\* name registered in style_attrs; no shorthand name and no unknown name is.
C8_OnlyCanonicalKeys ==
    pc = "returned" =>
        \A i \in DOMAIN done :
            /\ done[i][1] \in DOMAIN style_attrs
            /\ done[i][1] \notin ShorthandNames

\* `border: 2px solid red` with an unknown property beside it has returned
\* after one re-expansion pass, with the twelve border longhands as keys
C8_Witness ==
    /\ phase = 1 /\ pc = "returned"
    /\ d = << <<"border", <<"2px", "solid", "red">>>>, <<"bogus", <<"red">>>> >>
    /\ passes = 1
    /\ Keys(done) = Range(bw_keys) \cup Range(bs_keys) \cup Range(bc_keys)

\* each pass re-expands the non-canonical keys the partition found, these
\* key sets shrink strictly, and the call returns on the empty one
C9_Shrinks ==
    /\ \A i \in 2..Len(todos) : todos[i] # todos[i - 1] /\ todos[i] \subseteq todos[i - 1]
    /\ \A i \in DOMAIN todos : todos[i] \cap DOMAIN style_attrs = {}
    /\ \A i \in 1..(Len(todos) - 1) : todos[i] # {}
    /\ pc = "returned" => todos # <<>> /\ todos[Len(todos)] = {}
    /\ (pc = "inner" /\ passes > 0) => Keys(queue) \subseteq todos[Len(todos)]
    /\ passes = (IF pc = "returned" THEN Len(todos) - 1 ELSE Len(todos))
    /\ passes < MaxPasses

\* C9: the re-expansion loop of process_input terminates for every input:
\* each pass re-expands only the non-canonical keys of the current result,
\* that set shrinks strictly from pass to pass, and the loop exits when it is
\* empty.
C9_Terminates ==
    /\ []C9_Shrinks
    /\ (pc = "inner") ~> Finished

\* a call that needed a re-expansion pass has returned
C9_Witness ==
    /\ pc = "returned" /\ phase = 1
    /\ Len(todos) = 2
    /\ todos[1] = {"border-width", "border-style", "border-color"}
    /\ todos[2] = {}

\* every declaration of the list names a canonical property and gives it one
\* valid value
C10_Canonical(input) ==
    \A i \in DOMAIN input : C7_Valid(input[i][1], input[i][2])

\* C10: on declarations whose names are all canonical and whose values are
\* valid, process_input returns exactly these declarations as a mapping, with
\* no re-expansion pass; and process_input of an output of process_input
\* returns it unchanged.
C10_Idempotent ==
    /\ (phase = 1 /\ Finished /\ C10_Canonical(d)) =>
        /\ pc = "returned"
        /\ passes = 0
        /\ AsMap(done) = AsMap(Dict(d))
    /\ (phase = 2 /\ Finished) =>
        /\ pc = "returned"
        /\ AsMap(done) = AsMap(first.output)

---------------------------------------------------------------------------
(* Claims about the side shorthands border-<side>, checked under Spec *)

\* C11: `border-<side>` with one width token, one border-style keyword and
\* one color token, in any order, expands to exactly border-<side>-width,
\* border-<side>-style and border-<side>-color, each with the token of its
\* kind; any other value of the shorthand is an error.
C11_BorderSideAnyOrder ==
    \A i \in DOMAIN directions :
        last.key = format("border-{}", directions[i]) =>
            IF /\ Len(last.value) = 3
               /\ \E w \in Range(last.value), st \in Range(last.value),
                     c \in Range(last.value) :
                    /\ Range(last.value) = {w, st, c}
                    /\ WidthToken(w) /\ StyleToken(st) /\ ColorToken(c)
            THEN /\ last.out.t = "ok"
                 /\ \A w \in Range(last.value), st \in Range(last.value),
                       c \in Range(last.value) :
                        (WidthToken(w) /\ StyleToken(st) /\ ColorToken(c)) =>
                            AsMap(last.out.res) =
                                Map3(format("border-{}-width", directions[i]), Raw(w),
                                     format("border-{}-style", directions[i]), Raw(st),
                                     format("border-{}-color", directions[i]), Raw(c))
            ELSE last.out.t = "assert"

---------------------------------------------------------------------------
(* process on one declaration block: Style.py lines 381-393 and 589-594 *)

\* longest declaration block given to process
MaxBlock == 3

\* remove_important(style) for a list: (k, v[0]) for each (k, v)
remove_important(style) == [i \in DOMAIN style |-> <<style[i][1], style[i][2][1]>>]

\* add_important(style, imp): {k: (v, imp)}
add_important(style, imp) == [i \in DOMAIN style |-> <<style[i][1], <<style[i][2], imp>>>>]

\* group_by_bool(itr, lambda t: is_imp(t[1])): (imp, not_imp)
group_imp(itr) ==
    <<SelectSeq(itr, LAMBDA t : is_imp(t[2])), SelectSeq(itr, LAMBDA t : ~is_imp(t[2]))>>

\* the right operand wins: not_imp | imp
overlay_first_wins(not_imp, imp) == Update(imp, not_imp)

\* the dict union `not_imp | imp` of the return statement of process
overlay(not_imp, imp) == Update(not_imp, imp)

\* the declarations blocks are built from, each as important and as not
BlockDecls ==
    {<<"color", <<"red">>>>, <<"color", <<"blue">>>>, <<"margin", <<"1px", "2px">>>>,
     <<"margin-top", <<"3px">>>>, <<"border", <<"2px", "solid", "red">>>>}
Blocks ==
    SeqsUpTo({<<x[1], <<x[2], imp>>>> : x \in BlockDecls, imp \in BOOLEAN}, MaxBlock)

NoProcessed == [t |-> "none"]

\* process(block) is called: its first process_input call starts
ProcessCalled(blk) ==
    /\ block = blk
    /\ processed = NoProcessed
    /\ phase = 1 /\ first = NoFirst
    /\ Called(remove_important(group_imp(blk)[2]))

\* the call on the non-important group has returned: the one on the
\* important group starts
ProcessImportant ==
    /\ pc = "returned"
    /\ phase = 1
    /\ phase' = 2
    /\ first' = [input |-> d, output |-> done, passes |-> passes, pc |-> pc]
    /\ \E input \in {remove_important(group_imp(block)[1])} :
        /\ d' = input /\ queue' = input
    /\ pc' = "inner" /\ done' = <<>> /\ passes' = 0
    /\ todos' = <<>> /\ errlog' = <<>> /\ exc' = "none" /\ last' = NoCall
    /\ UNCHANGED <<block, processed>>
    /\ UNCHANGED <<joinVars, sheetVars, mediaVars, fileVars, accVars, tagVars, parseVars>>

\* both calls have returned: process returns the union of the two results
ProcessReturn ==
    /\ pc = "returned"
    /\ phase = 2
    /\ phase' = 3
    /\ processed' = [t |-> "ok",
                     v |-> overlay(add_important(first.output, FALSE),
                                   add_important(done, TRUE))]
    /\ UNCHANGED <<d, pc, queue, done, passes, todos, errlog, exc, last, first, block>>
    /\ UNCHANGED <<joinVars, sheetVars, mediaVars, fileVars, accVars, tagVars, parseVars>>

ProcessInit ==
    /\ JoinIdle /\ SheetIdle /\ MediaIdle /\ FileIdle /\ AccIdle /\ TagIdle /\ ParseIdle
    /\ \E blk \in Blocks : ProcessCalled(blk)

ProcessNext == InnerStep \/ LoopHead \/ ProcessImportant \/ ProcessReturn

\* process on every block of Blocks
SpecProcess == ProcessInit /\ [][ProcessNext]_vars

\* the declarations of the block with the given importance, without the flag
C12_Group(imp) ==
    remove_important(SelectSeq(block, LAMBDA t : t[2][2] = imp))

\* C12: process expands the non-important and the important declarations of
\* a block separately and lays the important result over the other: every
\* property the important declarations set carries their value with flag
\* True, whatever the non-important declarations say and wherever they
\* stand, and every other property of the result carries flag False.
C12_ImportantLast ==
    (phase = 3 /\ processed.t = "ok") =>
        /\ first.input = C12_Group(FALSE)
        /\ d = C12_Group(TRUE)
        /\ Keys(processed.v) = Keys(first.output) \cup Keys(done)
        /\ \A p \in Keys(processed.v) :
            IF p \in Keys(done)
            THEN Get(processed.v, p) = <<Get(done, p), TRUE>>
            ELSE Get(processed.v, p) = <<Get(first.output, p), FALSE>>
        \* a property only plain declarations set important has one of their values
        /\ \A p \in {"color", "margin-top"} :
            LET vals == {block[i][2][1] : i \in {j \in DOMAIN block :
                            block[j][1] = p /\ block[j][2][2]}}
            IN  (vals # {} /\ \A j \in DOMAIN block :
                                block[j][2][2] => block[j][1] \in {"color", "margin-top"})
                => /\ p \in Keys(processed.v)
                   /\ Get(processed.v, p)[2]
                   /\ Get(processed.v, p)[1] \in vals

\* `color: red; color: blue !important; color: red` has given color: blue,
\* important
C12_Witness ==
    /\ phase = 3 /\ processed.t = "ok"
    /\ block = << <<"color", <<<<"red">>, FALSE>>>>,
                  <<"color", <<<<"blue">>, TRUE>>>>,
                  <<"color", <<<<"red">>, FALSE>>>> >>
    /\ AsMap(processed.v) = [k \in {"color"} |-> <<<<"blue">>, TRUE>>]

---------------------------------------------------------------------------
(* SourceSheet as a list: Style.py lines 407-451.  SourceSheet subclasses  *)
(* list and overrides append, extend, __setitem__ and __delitem__; every   *)
(* other list method is the one it inherits.                               *)

\* longest rule sequence of a sheet
MaxRules == 3

\* the rules sheets are built from
SheetRules == {1, 2, 3}

NoSheetOp == [op |-> "none", before |-> <<>>, raised |-> "none"]

\* the operation op on the sheet ends with the given sheet and outcome
SheetDoes(op, after, raised) ==
    /\ sheetOp' = [op |-> op, before |-> sheet, raised |-> raised]
    /\ sheet' = after
    /\ UNCHANGED <<joinVars, inputVars, procVars, mediaVars, fileVars, accVars,
                   tagVars, parseVars>>

\* the four overridden methods: raise ValueError("Immutable List")
SheetAppend == \E x \in SheetRules : SheetDoes("append", sheet, "ValueError")
SheetExtend ==
    \E xs \in SeqsUpTo(SheetRules, 1) : SheetDoes("extend", sheet, "ValueError")
SheetSetItem ==
    \E i \in 1..MaxRules, x \in SheetRules :
        SheetDoes("__setitem__", sheet, "ValueError")
SheetDelItem == \E i \in 1..MaxRules : SheetDoes("__delitem__", sheet, "ValueError")

\* the count of x in the sequence s
CountOf(s, x) == Cardinality({i \in DOMAIN s : s[i] = x})

\* sorted(s)
SortedSeq(s) ==
    CHOOSE t \in [1..Len(s) -> Range(s)] :
        /\ \A i \in 1..(Len(s) - 1) : t[i] <= t[i + 1]
        /\ \A x \in Range(s) : CountOf(t, x) = CountOf(s, x)

\* the inherited methods of list
SheetInsert ==
    /\ Len(sheet) < MaxRules
    /\ \E i \in 0..Len(sheet), x \in SheetRules :
        SheetDoes("insert",
                  SubSeq(sheet, 1, i) \o <<x>> \o SubSeq(sheet, i + 1, Len(sheet)),
                  "none")
SheetPop ==
    IF sheet = <<>> THEN SheetDoes("pop", sheet, "IndexError")
    ELSE SheetDoes("pop", SubSeq(sheet, 1, Len(sheet) - 1), "none")
SheetRemove ==
    \E x \in SheetRules :
        IF x \notin Range(sheet) THEN SheetDoes("remove", sheet, "ValueError")
        ELSE LET i == Min({j \in DOMAIN sheet : sheet[j] = x})
             IN  SheetDoes("remove",
                           SubSeq(sheet, 1, i - 1) \o SubSeq(sheet, i + 1, Len(sheet)),
                           "none")
SheetClear == SheetDoes("clear", <<>>, "none")
SheetSort == SheetDoes("sort", SortedSeq(sheet), "none")
SheetReverse ==
    SheetDoes("reverse", [i \in DOMAIN sheet |-> sheet[Len(sheet) + 1 - i]], "none")
SheetIAdd ==
    /\ Len(sheet) < MaxRules
    /\ \E x \in SheetRules : SheetDoes("__iadd__", Append(sheet, x), "none")

\* SourceSheet(rules) has been constructed
SheetInit ==
    /\ JoinIdle /\ InputIdle
    /\ ProcIdle /\ MediaIdle /\ FileIdle /\ AccIdle /\ TagIdle /\ ParseIdle
    /\ sheet \in SeqsUpTo(SheetRules, MaxRules)
    /\ sheetOp = NoSheetOp

SheetNext ==
    \/ SheetAppend \/ SheetExtend \/ SheetSetItem \/ SheetDelItem
    \/ SheetInsert \/ SheetPop \/ SheetRemove \/ SheetClear
    \/ SheetSort \/ SheetReverse \/ SheetIAdd

\* every list operation on every sheet of up to MaxRules rules
SpecSheet == SheetInit /\ [][SheetNext]_vars

\* C13: every operation that would change the rule sequence of a SourceSheet
\* (append, extend, item assignment, item deletion, insert, pop, remove,
\* clear, sort, reverse, in-place +=) fails with an error and leaves the rule
\* sequence as it was.
C13_Immutable ==
    sheetOp.op # "none" =>
        /\ sheetOp.raised # "none"
        /\ sheet = sheetOp.before

---------------------------------------------------------------------------
(* SourceSheet.all_rules and its cache: Style.py lines 403-429.  A sheet   *)
(* is a number; tree[s] is its rule sequence, a rule being <<"style", n>>  *)
(* or <<"media", s2>> with s2 the nested sheet of the MediaRule.           *)

\* the window sizes the model moves between
Viewports == {<<g.W, g.H>>, <<g.H, g.W>>, <<g.W, g.W>>}

\* the sheets the model reads
Trees ==
    { <<  << <<"style", 1>>, <<"media", 2>>, <<"style", 2>> >>,
          << <<"style", 3>>, <<"media", 3>> >>,
          << <<"style", 4>> >>  >>,
      <<  << <<"media", 2>>, <<"media", 3>> >>,
          << <<"style", 1>> >>,
          << <<"style", 2>>, <<"style", 1>> >>  >>,
      <<  << <<"style", 1>>, <<"style", 2>> >>  >>,
      <<  << <<"media", 2>> >>, << >>  >> }

\* get_media()
get_media == viewport

\* MediaRule.matches(media)
matches(rule, media) == TRUE

\* the cache is used whatever viewport it was filled for
cache_hit_any_media(s, cch, current_media) == cch[s].t = "val"

\* self._last_media_rules is not None and lastmedia == current_media
cache_hit(s, cch, current_media) ==
    cch[s].t = "val" /\ cch[s].v[1] = current_media

\* sheet s .all_rules with the caches cch: the value returned
RECURSIVE all_rules(_, _, _)
RECURSIVE all_rules_from(_, _, _, _)
all_rules(s, cch, current_media) ==
    IF cache_hit(s, cch, current_media) THEN cch[s].v[2]
    ELSE all_rules_from(s, 1, cch, current_media)

\* what the for loop adds to rv from rule number i on
all_rules_from(s, i, cch, current_media) ==
    IF i > Len(tree[s]) THEN <<>>
    ELSE (IF tree[s][i][1] = "media" /\ matches(tree[s][i], current_media)
          THEN all_rules(tree[s][i][2], cch, current_media)
          ELSE IF tree[s][i][1] = "style" THEN <<tree[s][i]>>
          ELSE <<>>)
         \o all_rules_from(s, i + 1, cch, current_media)

\* the sheets whose loop runs during sheet s .all_rules
RECURSIVE recomputed(_, _, _)
recomputed(s, cch, current_media) ==
    IF cache_hit(s, cch, current_media) THEN {}
    ELSE {s} \cup UNION {recomputed(tree[s][i][2], cch, current_media) :
                            i \in {j \in DOMAIN tree[s] :
                                    /\ tree[s][j][1] = "media"
                                    /\ matches(tree[s][j], current_media)}}

NoReads == [sheet |-> 0, media |-> <<>>, rules |-> <<>>, before |-> <<>>, ran |-> {}]

\* the window is resized
SetViewport ==
    /\ tree # <<>>
    /\ \E v \in Viewports \ {viewport} : viewport' = v
    /\ UNCHANGED <<tree, cache, reads>>
    /\ UNCHANGED <<joinVars, inputVars, procVars, sheetVars, fileVars, accVars,
                   tagVars, parseVars>>

\* sheet s .all_rules is read
ReadAllRules ==
    /\ \E s \in DOMAIN tree :
        \E ran \in {recomputed(s, cache, get_media)} :
            /\ reads' = [sheet |-> s, media |-> get_media,
                         rules |-> all_rules(s, cache, get_media),
                         before |-> cache, ran |-> ran]
            /\ cache' = [x \in DOMAIN cache |->
                            IF x \in ran
                            THEN Val(<<get_media, all_rules(x, cache, get_media)>>)
                            ELSE cache[x]]
    /\ UNCHANGED <<viewport, tree>>
    /\ UNCHANGED <<joinVars, inputVars, procVars, sheetVars, fileVars, accVars,
                   tagVars, parseVars>>

\* sheets parsed, nothing read yet: _last_media_rules is None everywhere
MediaInit ==
    /\ JoinIdle /\ InputIdle
    /\ ProcIdle /\ SheetIdle /\ FileIdle /\ AccIdle /\ TagIdle /\ ParseIdle
    /\ viewport = <<g.W, g.H>>
    /\ tree \in Trees
    /\ cache = [s \in DOMAIN tree |-> None]
    /\ reads = NoReads

MediaNext == SetViewport \/ ReadAllRules

SpecMedia == MediaInit /\ [][MediaNext]_vars

\* the flattening of sheet s, computed without any cache
RECURSIVE C14_Flat(_, _)
C14_Flat(s, i) ==
    IF i > Len(tree[s]) THEN <<>>
    ELSE (IF tree[s][i][1] = "media" THEN C14_Flat(tree[s][i][2], 1)
          ELSE <<tree[s][i]>>)
         \o C14_Flat(s, i + 1)

\* C14: after any sequence of viewport changes and all_rules reads, a read
\* returns the uncached flattening for the current viewport: the style rules
\* in source order, each media rule replaced in place by the flattening of
\* its sheet; the cache slot of a sheet is used only when its viewport is
\* the current one, and is recomputed and overwritten otherwise.
C14_CacheRefinesFlatten ==
    reads.sheet # 0 =>
        /\ reads.rules = C14_Flat(reads.sheet, 1)
        /\ (reads.sheet \in reads.ran)
            <=> ~( /\ reads.before[reads.sheet].t = "val"
                   /\ reads.before[reads.sheet].v[1] = reads.media )
        /\ \A s \in reads.ran : cache[s] = Val(<<reads.media, C14_Flat(s, 1)>>)
        /\ \A s \in DOMAIN tree \ reads.ran : cache[s] = reads.before[s]
        /\ \A s \in DOMAIN tree :
            cache[s].t = "val" => cache[s].v[2] = C14_Flat(s, 1)

\* the top sheet is read again after a resize: its slot held the old
\* viewport, the whole tree was recomputed and the slot now holds the new one
C14_Witness ==
    /\ reads.sheet = 1
    /\ Len(tree) = 3
    /\ reads.before[1].t = "val"
    /\ reads.before[1].v[1] # reads.media
    /\ reads.ran = {1, 2, 3}
    /\ cache[1] = Val(<<viewport, reads.rules>>)
    /\ Len(reads.rules) = 4

---------------------------------------------------------------------------
(* parse_file and the global current_file: Style.py lines 485-505.         *)
(* calls[t] is the parse_file activity of thread t: where its current call *)
(* stands (pc), the source it was called with, the exception travelling    *)
(* out of the with block, how many calls it has finished and how the last  *)
(* one ended.                                                              *)

\* calls made per thread
MaxCalls == 2

Sources == {"a.css", "b.css", "c.css"}

\* what can leave the with block: nothing (a sheet is returned), the error
\* of fetch_src, an error raised while parsing, handle_rule's
\* NotImplementedError
Raised == {"none", "FetchError", "ParseError", "NotImplementedError"}

NoParseCall == [pc |-> "idle", source |-> NoFile, raised |-> "none", n |-> 0, last |-> "none"]

\* the marker is cleared only when the with block ends without an exception
exit_file_without_finally(file, cur, raised) ==
    IF raised = "none" THEN NoFile ELSE cur

\* the marker is cleared only by the call that owns it
exit_file_own_only(file, cur, raised) ==
    IF cur = file THEN NoFile ELSE cur

\* set_curr_file after the yield: finally: current_file = None
exit_file(file, cur, raised) == NoFile

\* with set_curr_file(source): current_file = file, up to the yield
EnterFile(t) ==
    /\ calls[t].pc = "idle"
    /\ calls[t].n < MaxCalls
    /\ \E source \in Sources :
        /\ current_file' = source
        /\ calls' = [calls EXCEPT ![t].pc = "fetch", ![t].source = source,
                                  ![t].raised = "none"]

\* data = fetch_src(source)
FetchSrc(t) ==
    /\ calls[t].pc = "fetch"
    /\ \/ calls' = [calls EXCEPT ![t].pc = "parse"]
       \/ calls' = [calls EXCEPT ![t].pc = "exit", ![t].raised = "FetchError"]
    /\ UNCHANGED current_file

\* return parse_sheet(data)
ParseSheet(t) ==
    /\ calls[t].pc = "parse"
    /\ \E raised \in Raised \ {"FetchError"} :
        calls' = [calls EXCEPT ![t].pc = "exit", ![t].raised = raised]
    /\ UNCHANGED current_file

\* the with block is left: the finally clause of set_curr_file runs
ExitFile(t) ==
    /\ calls[t].pc = "exit"
    /\ current_file' = exit_file(calls[t].source, current_file, calls[t].raised)
    /\ calls' = [calls EXCEPT ![t].pc = "idle", ![t].n = @ + 1,
                              ![t].last = calls[t].raised]

FileStep(t) == EnterFile(t) \/ FetchSrc(t) \/ ParseSheet(t) \/ ExitFile(t)

FileNext ==
    /\ \E t \in DOMAIN calls : FileStep(t)
    /\ UNCHANGED <<joinVars, inputVars, procVars, sheetVars, mediaVars, accVars,
                   tagVars, parseVars>>

FileInitWith(threads) ==
    /\ JoinIdle /\ InputIdle
    /\ ProcIdle /\ SheetIdle /\ MediaIdle /\ AccIdle /\ TagIdle /\ ParseIdle
    /\ current_file = NoFile
    /\ calls = [t \in 1..threads |-> NoParseCall]

\* one thread calling parse_file again and again
FileInit == FileInitWith(1)

SpecFile == FileInit /\ [][FileNext]_vars

\* two threads calling parse_file
FileConcInit == FileInitWith(2)

SpecFileConc == FileConcInit /\ [][FileNext]_vars

\* the pcs at which the body of the with block is running or being left
InCall == {"fetch", "parse", "exit"}

\* C15: in a single-threaded sequence of parse_file calls current_file is
\* the call's source for the whole duration of the call and None once the
\* call has ended, whether it returned a sheet or raised.
C15_MarkerScoped ==
    \A t \in DOMAIN calls :
        /\ calls[t].pc \in InCall => current_file = calls[t].source
        /\ calls[t].pc = "idle" => current_file = NoFile

\* the last of the thread's calls has ended by raising and the marker is None
C15_Witness ==
    /\ DOMAIN calls = {1}
    /\ calls[1].pc = "idle"
    /\ calls[1].n = MaxCalls
    /\ calls[1].last = "NotImplementedError"
    /\ current_file = NoFile

\* C16: with two interleaved parse_file calls the marker is not safe: a
\* call that ends while the other is still parsing leaves current_file None
\* under the other, and a call that begins while the other is still parsing
\* puts its own source there.
C16_NotThreadSafe ==
    [][\A t, u \in DOMAIN calls :
        ( /\ t # u
          /\ calls[u].pc \in {"fetch", "parse"}
          /\ calls'[u] = calls[u]
          /\ calls'[t] # calls[t] )
        => /\ calls[t].pc = "exit" => current_file' = NoFile
           /\ calls[t].pc = "idle" => current_file' = calls'[t].source]_vars

\* thread 1 is parsing a.css while current_file is None: thread 2 has
\* finished a call for b.css in between
C16_Witness ==
    /\ DOMAIN calls = {1, 2}
    /\ calls[1].pc = "parse" /\ calls[1].source = "a.css"
    /\ calls[2].pc = "idle" /\ calls[2].source = "b.css" /\ calls[2].n = 1
    /\ current_file = NoFile

---------------------------------------------------------------------------
(* The acceptors called on their own: Style.py lines 33-162.               *)

\* parent font weights around every threshold of font_weight
ParentWeights ==
    {50, 99, 100, 349, 350, 549, 550, 699, 700, 899, 900, 950, 1000, 1001}

\* the parent styles handed to an acceptor
AccParents ==
    {EmptyStyle} \cup {[ParentStyle EXCEPT !["font-weight"] = w] : w \in ParentWeights}

\* the value strings handed to an acceptor
AccValues ==
    DOMAIN NumTok \cup DOMAIN FloatTok \cup {"lighter", "bolder", "abc", "red"}

AccNames == {"length", "length_percentage", "font_size", "font_weight"}

Pending == [t |-> "pending"]

\* the acceptor called by name
call_acceptor(acc, value, p_style) ==
    CASE acc = "length" -> length(value, p_style)
      [] acc = "length_percentage" -> length_percentage(value, p_style, None)
      [] acc = "font_size" -> font_size(value, p_style)
      [] acc = "font_weight" -> font_weight(value, p_style)

\* acc(value, p_style) runs to its end: a value, None, or an exception
CallAcceptor ==
    /\ accCall.acc # "none"
    /\ accCall.out = Pending
    /\ accCall' = [accCall EXCEPT
                    !.out = call_acceptor(accCall.acc, accCall.value, accCall.p_style)]
    /\ UNCHANGED <<joinVars, inputVars, procVars, sheetVars, mediaVars, fileVars,
                   tagVars, parseVars>>

AcceptInit ==
    /\ JoinIdle /\ InputIdle
    /\ ProcIdle /\ SheetIdle /\ MediaIdle /\ FileIdle /\ TagIdle /\ ParseIdle
    /\ accCall \in [acc : AccNames, value : AccValues, p_style : AccParents,
                    out : {Pending}]

AcceptNext == CallAcceptor

SpecAccept == AcceptInit /\ [][AcceptNext]_vars

\* the call has ended
AccEnded == accCall.acc # "none" /\ accCall.out # Pending

\* C17: length and length_percentage are total: a malformed numeric token
\* and a non-zero number with an unknown unit give None, font_weight with
\* lighter and a parent weight above 1000 gives None, and no acceptor call
\* on invalid input ends in an exception.
C17_AcceptorsTotal ==
    AccEnded =>
        /\ ( /\ accCall.acc \in {"length", "length_percentage"}
             /\ \/ accCall.value \notin DOMAIN NumTok
                \/ /\ NumTok[accCall.value][1] # 0
                   /\ NumTok[accCall.value][2] \notin
                        DOMAIN abs_length_units \cup
                            {"em", "rem", "vw", "vh", "vmin", "vmax", "%"} )
            => accCall.out = None
        /\ ( /\ accCall.acc = "font_weight"
             /\ accCall.value = "lighter"
             /\ "font-weight" \in DOMAIN accCall.p_style
             /\ accCall.p_style["font-weight"] > 1000 )
            => accCall.out = None
        /\ accCall.p_style # EmptyStyle => accCall.out.t # "exc"

\* the weight font_weight is to give for value on the parent weight w
C18_Expected(value, w) ==
    IF value = "lighter"
    THEN CASE w < 100 -> Val(w)
           [] 100 <= w /\ w < 550 -> Val(100)
           [] 550 <= w /\ w < 700 -> Val(400)
           [] 700 <= w /\ w <= 1000 -> Val(700)
    ELSE IF value = "bolder"
    THEN CASE w < 350 -> Val(400)
           [] 350 <= w /\ w < 550 -> Val(700)
           [] 550 <= w /\ w < 900 -> Val(900)
           [] w >= 900 -> Val(w)
    ELSE IF 0 < FloatTok[value] /\ FloatTok[value] <= 1000
    THEN Val(FloatTok[value])
    ELSE None

\* C18: font_weight on a parent weight w: lighter gives w below 100, 100
\* below 550, 400 below 700, 700 up to 1000; bolder gives 400 below 350, 700
\* below 550, 900 below 900 and w from 900 on; a numeric literal n is given
\* back exactly when 0 < n <= 1000 and is invalid otherwise.
C18_FontWeightTable ==
    ( /\ AccEnded
      /\ accCall.acc = "font_weight"
      /\ accCall.p_style # EmptyStyle
      /\ accCall.value \in {"lighter", "bolder"} \cup DOMAIN FloatTok
      /\ accCall.value = "lighter" => accCall.p_style["font-weight"] <= 1000 )
    => accCall.out = C18_Expected(accCall.value, accCall.p_style["font-weight"])

\* bolder on the parent weight 900 has given 900 back
C18_Witness ==
    /\ AccEnded
    /\ accCall.acc = "font_weight"
    /\ accCall.value = "bolder"
    /\ accCall.p_style # EmptyStyle
    /\ accCall.p_style["font-weight"] = 900
    /\ accCall.out = Val(900)

---------------------------------------------------------------------------
(* The per-tag default styles: Style.py lines 269-297.                     *)

\* every default is the raw initial string, inheriting or not
abs_default_style_all_initial ==
    [k \in DOMAIN style_attrs |-> style_attrs[k].initial]

\* "inherit" if the attribute inherits, else its initial string
abs_default_style ==
    [k \in DOMAIN style_attrs |->
        IF style_attrs[k].inherits THEN "inherit" ELSE style_attrs[k].initial]

\* element_styles[tag]; a tag without an entry gets dict()
element_styles(tag) ==
    CASE tag = "html" ->
            [k \in {a \in DOMAIN style_attrs : style_attrs[a].inherits}
                    \cup {"display"} |->
                IF k = "display" THEN "block" ELSE style_attrs[k].initial]
      [] tag = "head" -> [k \in {"display"} |-> "none"]
      [] OTHER -> <<>>

\* own_types.ReadChain(*maps)[key]: the first map that has the key
ReadChain_get(chain, key) ==
    chain[CHOOSE i \in DOMAIN chain :
            /\ key \in DOMAIN chain[i]
            /\ \A j \in 1..(i - 1) : key \notin DOMAIN chain[j]][key]

\* the tags the model asks for
Tags == {"html", "head", "p", "unknown-tag"}

\* get_style(tag)[p]: the cached chain of the tag if there is one, else a
\* new chain, which the cache keeps
GetStyle ==
    /\ \E tag \in Tags, p \in DOMAIN style_attrs :
        \E chain \in {IF tag \in DOMAIN tagCache THEN tagCache[tag]
                      ELSE <<element_styles(tag), abs_default_style>>} :
            /\ tagRead' = [tag |-> tag, p |-> p,
                           value |-> ReadChain_get(chain, p),
                           hit |-> tag \in DOMAIN tagCache]
            /\ tagCache' = [t \in DOMAIN tagCache \cup {tag} |->
                                IF t = tag THEN chain ELSE tagCache[t]]
    /\ UNCHANGED <<joinVars, inputVars, procVars, sheetVars, mediaVars, fileVars,
                   accVars, parseVars>>

\* nothing asked for yet: the cache of get_style is empty
TagInit ==
    /\ JoinIdle /\ InputIdle
    /\ ProcIdle /\ SheetIdle /\ MediaIdle /\ FileIdle /\ AccIdle /\ ParseIdle
    /\ tagCache = <<>>
    /\ tagRead = [tag |-> ""]

TagNext == GetStyle

SpecTags == TagInit /\ [][TagNext]_vars

\* what get_style(tag)[p] is to give
C19_Expected(tag, p) ==
    IF tag = "head" /\ p = "display" THEN "none"
    ELSE IF tag = "html" /\ p = "display" THEN "block"
    ELSE IF tag = "html" /\ style_attrs[p].inherits THEN style_attrs[p].initial
    ELSE IF style_attrs[p].inherits THEN "inherit"
    ELSE style_attrs[p].initial

\* C19: get_style(tag)[p] is the tag's entry in the per-tag table when it
\* has one for p and otherwise abs_default_style[p], "inherit" if p inherits
\* and p's initial string if not; head gives display none, an unknown tag
\* takes every property from abs_default_style, and a repeated call with the
\* same tag gives the same result.
C19_TagDefaults ==
    tagRead.tag # "" =>
        /\ tagRead.value = C19_Expected(tagRead.tag, tagRead.p)
        /\ tagRead.tag \in DOMAIN tagCache
        /\ \A t \in DOMAIN tagCache :
            \A p \in DOMAIN style_attrs :
                ReadChain_get(tagCache[t], p) = C19_Expected(t, p)

\* a property that does not inherit is read from a tag asked for before,
\* and the unknown tag has been asked for too
C19_Witness ==
    /\ tagRead.tag = "head"
    /\ tagRead.hit
    /\ tagRead.p = "width"
    /\ tagRead.value = "auto"
    /\ "unknown-tag" \in DOMAIN tagCache
    /\ ReadChain_get(tagCache["head"], "display") = "none"
    /\ ReadChain_get(tagCache["unknown-tag"], "color") = "inherit"

---------------------------------------------------------------------------
(* parse_style: Style.py lines 459-479.  The style string is the sequence  *)
(* of its `;`-separated segments, a segment the sequence of its            *)
(* `:`-separated pieces, a piece a token sequence in which " " stands for  *)
(* white space.                                                            *)

\* segments per style string
MaxSegments == 2

IMPORTANT == "!important"

\* the segments the model writes: declarations, one of them important, and
\* segments with no `:` or with two
Segments ==
    { << <<"color">>, <<" ", "red">> >>,
      << <<"color">>, <<" ", "blue", " ", IMPORTANT>> >>,
      << <<" ", "margin">>, <<" ", "1px", "2px", " ">> >>,
      << <<"width">>, <<"5foo">> >>,
      << <<"bogus">>, <<"1px">> >>,
      << <<"foo">> >>,
      << <<"a">>, <<"b">>, <<"c">> >>,
      << <<>> >> }

\* str.strip()
RECURSIVE strip(_)
strip(piece) ==
    IF piece # <<>> /\ Head(piece) = " " THEN strip(Tail(piece))
    ELSE IF piece # <<>> /\ piece[Len(piece)] = " "
         THEN strip(SubSeq(piece, 1, Len(piece) - 1))
         ELSE piece

\* (s[: -len(IMPORTANT)], True) if s.endswith(IMPORTANT) else (s, False)
parse_important(string) ==
    IF string # <<>> /\ string[Len(string)] = IMPORTANT
    THEN <<SubSeq(string, 1, Len(string) - 1), TRUE>>
    ELSE <<string, FALSE>>

\* the list comprehension: the segments with exactly two pieces, stripped;
\* any other segment is logged and left out
pre_parsed(data) ==
    LET kept == SelectSeq(data, LAMBDA value : Len(value) = 2)
    IN  [i \in DOMAIN kept |-> <<strip(kept[i][1]), strip(kept[i][2])>>]

\* sorted([(k, parse_important(string)) ...], key=lambda t: is_imp(t[1]))
sorted_by_imp(pairs) ==
    LET items == [i \in DOMAIN pairs |-> <<pairs[i][1], parse_important(pairs[i][2])>>]
    IN  SelectSeq(items, LAMBDA t : ~is_imp(t[2]))
            \o SelectSeq(items, LAMBDA t : is_imp(t[2]))

\* split(s) with the pair (string, flag) as s: `for c in s` takes the
\* string, then the flag, and re.match(r"\s", flag) raises TypeError
split_pair(value) ==
    IF value[2] \in BOOLEAN THEN Raise("TypeError") ELSE Val(split(value))

\* process_input on (key, (string, flag)) items: inner catches only
\* AssertionError, so what the first process_property raises leaves the call
process_input_pairs(items) ==
    IF items = <<>> THEN Val(<<>>)
    ELSE IF split_pair(items[1][2]).t = "exc" THEN split_pair(items[1][2])
    ELSE Val(<<>>)

\* parse_style(s)
parse_style(s) ==
    IF s = <<>> THEN Val(<<>>)
    ELSE process_input_pairs(sorted_by_imp(pre_parsed(s)))

\* parse_style(s) runs to its end
ParseStyle ==
    /\ inline.out = Pending
    /\ inline' = [inline EXCEPT !.out = parse_style(inline.s)]
    /\ UNCHANGED <<joinVars, inputVars, procVars, sheetVars, mediaVars, fileVars,
                   accVars, tagVars>>

ParseInit ==
    /\ JoinIdle /\ InputIdle
    /\ ProcIdle /\ SheetIdle /\ MediaIdle /\ FileIdle /\ AccIdle /\ TagIdle
    /\ inline \in [s : SeqsUpTo(Segments, MaxSegments), out : {Pending}]

ParseNext == ParseStyle

SpecParseStyle == ParseInit /\ [][ParseNext]_vars

\* C20: parse_style on a non-empty style string returns normally: a
\* segment that is not one property and one value is skipped, and every
\* well-formed valid declaration, such as color: red, is in the result.
C20_ParseStyleReturns ==
    (inline.out.t \notin {"none", "pending"} /\ inline.s # <<>>) =>
        /\ inline.out.t = "val"
        /\ (\E i \in DOMAIN inline.s :
                inline.s[i] = << <<"color">>, <<" ", "red">> >>)
            => "color" \in Keys(inline.out.v)

---------------------------------------------------------------------------
(* Source order within one call of process_input, checked under Spec *)

\* C21: when two declarations of one list set the same canonical property,
\* the later one in source order determines the result of process_input,
\* also when the earlier one is a shorthand that needs a second expansion
\* pass and the later one a longhand: the last declaration of the list, when
\* it is a valid longhand, is in the result with its own value.
C21_LaterWins ==
    (pc = "returned" /\ phase = 1 /\ d # <<>> /\ KeptAlone(d[Len(d)])) =>
        /\ d[Len(d)][1] \in Keys(done)
        /\ Get(done, d[Len(d)][1]) = d[Len(d)][2]

=============================================================================
